---- MODULE Spec2Model ----
(***************************************************************************)
(* A model of app-puts.py: the identifier canonicalization functions, the  *)
(* rate-limited fetcher and paginated collector, and the reconciliation    *)
(* of the fetched PUT lines with the 'Check Bas' spreadsheet.              *)
(*                                                                         *)
(* Python strings are sequences of one-character strings, so that strip,   *)
(* endswith, isdigit and zfill are computed character by character.        *)
(***************************************************************************)
EXTENDS Integers, Sequences, FiniteSets, TLC

VARIABLES
    \* canonicalization harness
    fn,                 \* which normalize_* function is applied
    x,                  \* the input value
    y,                  \* the value after the applications so far
    first,              \* the value after the first application
    applied,            \* the number of applications so far
    \* collection and reconciliation
    api_lines,          \* the lines get_put_lines returned, in fetch order
    csv_buffer,         \* st.session_state['csv_buffer']: the rows written
    excel_file,         \* the uploaded sheet as read_excel returns it
    df_excel,           \* the frame merge_put_lines_to_excel returned
    mapping,            \* the mapping dict of the last merge
    received_quantity,  \* the received_quantity dict of the last merge
    merges,             \* the number of merges run
    merge_error,        \* the exception the last merge raised, or "none"
    \* the collection run
    fpc,                \* where the run is: idle, listing, details, done, failed
    current_page,       \* get_all_puts: the page to request next
    put_ids,            \* get_all_puts: the ids collected so far
    fetched,            \* fetch_put_lines_csv: the number of PUTs fetched so far
    http_log,           \* every physical GET: its request, response and sleep
    resp,               \* the response safe_get returned last, or NoResp
    now,                \* time.time(), in seconds
    session_token,      \* st.session_state["token"], 0 when absent
    token_expiry,       \* st.session_state["token_expiry"]
    token,              \* the token the running function holds
    \* one call of safe_get against a server with a plan
    server,             \* the server's plan: 429 always, or a number of 429s
    attempts,           \* the GETs this call has sent so far
    returned            \* the response the call returned, or NoResp

normVars == <<fn, x, y, first, applied>>
mergeVars == <<api_lines, csv_buffer, excel_file, df_excel, mapping,
               received_quantity, merges, merge_error>>
fetchVars == <<fpc, current_page, put_ids, fetched, http_log, resp, now,
               session_token, token_expiry, token>>
callVars == <<server, attempts, returned>>
vars == <<normVars, mergeVars, fetchVars, callVars>>

-----------------------------------------------------------------------------
(* Python strings *)

Digits == {"0", "1", "2", "3", "4", "5", "6", "7", "8", "9"}

DigitChar == <<"0", "1", "2", "3", "4", "5", "6", "7", "8", "9">>

DigitVal(c) == (CHOOSE i \in 1..10 : DigitChar[i] = c) - 1

RECURSIVE lstrip(_)
lstrip(s) == IF s # <<>> /\ Head(s) = " " THEN lstrip(Tail(s)) ELSE s

RECURSIVE rstrip(_)
rstrip(s) ==
    IF s # <<>> /\ s[Len(s)] = " " THEN rstrip(SubSeq(s, 1, Len(s) - 1)) ELSE s

strip(s) == rstrip(lstrip(s))

endswith(s, suffix) ==
    /\ Len(s) >= Len(suffix)
    /\ SubSeq(s, Len(s) - Len(suffix) + 1, Len(s)) = suffix

isdigit(s) == s # <<>> /\ \A i \in 1..Len(s) : s[i] \in Digits

zfill(s, width) ==
    IF Len(s) >= width THEN s ELSE [i \in 1..(width - Len(s)) |-> "0"] \o s

RECURSIVE lstrip_zeros(_)
lstrip_zeros(s) ==
    IF s # <<>> /\ Head(s) = "0" THEN lstrip_zeros(Tail(s)) ELSE s

RECURSIVE int_to_str(_)
int_to_str(n) ==
    IF n < 10 THEN <<DigitChar[n + 1]>>
    ELSE int_to_str(n \div 10) \o <<DigitChar[(n % 10) + 1]>>

RECURSIVE str_to_int(_)
str_to_int(s) ==
    IF s = <<>> THEN 0
    ELSE 10 * str_to_int(SubSeq(s, 1, Len(s) - 1)) + DigitVal(s[Len(s)])

\* A list and a dict built by a comprehension, evaluated once when built
\* rather than at every later lookup.
list(s) == SubSeq(s, 1, Len(s))

EmptyDict == [k \in {} |-> 0]

dict(f) == f @@ EmptyDict

-----------------------------------------------------------------------------
(* Python values: a str, an int, a float or NaN.  A float is kept as its   *)
(* integer part and the digits of its fraction, "0" for a whole number.    *)

Str(s) == [k |-> "str", s |-> s]
Int_(n) == [k |-> "int", n |-> n]
Flt(n, frac) == [k |-> "float", n |-> n, frac |-> frac]
NaN == [k |-> "nan"]

isna(v) == v.k = "nan"

\* str(v)
str(v) ==
    CASE v.k = "str" -> v.s
      [] v.k = "int" -> int_to_str(v.n)
      [] v.k = "float" -> int_to_str(v.n) \o <<".">> \o v.frac
      [] v.k = "nan" -> <<"n", "a", "n">>

-----------------------------------------------------------------------------
(* Identifier canonicalization *)

drop_dot_zero(s) == IF endswith(s, <<".", "0">>) THEN SubSeq(s, 1, Len(s) - 2) ELSE s

normalize_item_number(v) ==
    LET s == drop_dot_zero(strip(str(v)))
    IN  IF isdigit(s) THEN zfill(s, 7) ELSE s

normalize_order_number(v) == drop_dot_zero(strip(str(v)))

\* normalize_kleurnummer that pads every digit string to 3
normalize_kleurnummer_3(v) ==
    LET s == drop_dot_zero(strip(str(v)))
    IN  IF isdigit(s) THEN zfill(s, 3) ELSE s

normalize_kleurnummer(v) ==
    LET s == drop_dot_zero(strip(str(v)))
    IN  IF isdigit(s) THEN zfill(s, IF Len(s) <= 2 THEN 3 ELSE 4) ELSE s

strip_leading_zeros(v) ==
    LET s == lstrip_zeros(str(v))
    IN  IF s # <<>> THEN s ELSE <<"0">>

-----------------------------------------------------------------------------
(* pandas.read_csv and pandas.read_excel type a column as a whole.         *)

RECURSIVE rstrip_zeros(_)
rstrip_zeros(s) ==
    IF s # <<>> /\ s[Len(s)] = "0" THEN rstrip_zeros(SubSeq(s, 1, Len(s) - 1))
    ELSE s

\* digits with one decimal point, such as 4.0 or 12.50
is_float_text(t) ==
    /\ Len(t) >= 2
    /\ \E i \in 1..Len(t) :
           /\ t[i] = "."
           /\ \A j \in 1..Len(t) : j # i => t[j] \in Digits

float_of_text(t) ==
    LET i == CHOOSE j \in 1..Len(t) : t[j] = "."
        frac == rstrip_zeros(SubSeq(t, i + 1, Len(t)))
    IN  Flt(str_to_int(SubSeq(t, 1, i - 1)), IF frac = <<>> THEN <<"0">> ELSE frac)

\* One column of the CSV text: int64 when every field is an integer, float64
\* when every field is a number or empty, else object, where the fields stay
\* the strings they are.  An empty field is NaN.
read_csv_column(texts) ==
    LET n == Len(texts)
        all_int == \A i \in 1..n : isdigit(texts[i])
        all_num == \A i \in 1..n :
                       texts[i] = <<>> \/ isdigit(texts[i]) \/ is_float_text(texts[i])
    IN  list([i \in 1..n |->
            IF all_int THEN Int_(str_to_int(texts[i]))
            ELSE IF texts[i] = <<>> THEN NaN
            ELSE IF ~all_num THEN Str(texts[i])
            ELSE IF isdigit(texts[i]) THEN Flt(str_to_int(texts[i]), <<"0">>)
            ELSE float_of_text(texts[i])])

\* One column of the sheet: a blank cell is NaN; whole numbers beside a blank
\* and no text make a float64 column; beside text they stay Python ints.
read_excel_column(cells) ==
    LET n == Len(cells)
        has_text == \E i \in 1..n : cells[i].k = "str"
        has_blank == \E i \in 1..n : cells[i].k = "nan"
    IN  list([i \in 1..n |->
            IF cells[i].k = "int" /\ ~has_text /\ has_blank
            THEN Flt(cells[i].n, <<"0">>)
            ELSE cells[i]])

CsvColumns == {"put_id", "po_number", "item_number", "color_number", "quantity"}

ColumnSet(columns) == {columns[i] : i \in 1..Len(columns)}

read_csv(buf) ==
    LET col == dict([c \in CsvColumns |->
                        read_csv_column([i \in 1..Len(buf) |-> buf[i][c]])])
    IN  list([i \in 1..Len(buf) |-> dict([c \in CsvColumns |-> col[c][i]])])

read_excel(file) ==
    LET n == Len(file.rows)
        col == dict([c \in ColumnSet(file.columns) |->
                        read_excel_column([i \in 1..n |-> file.rows[i][c]])])
    IN  [columns |-> file.columns,
         rows |-> list([i \in 1..n |->
                      dict([c \in ColumnSet(file.columns) |-> col[c][i]])])]

-----------------------------------------------------------------------------
(* fetch_put_lines_csv: the row written for one line of one PUT *)

has_dot(s) == \E i \in 1..Len(s) : s[i] = "."

before_dot(s) == SubSeq(s, 1, (CHOOSE i \in 1..Len(s) :
                                   s[i] = "." /\ \A j \in 1..(i - 1) : s[j] # ".") - 1)

csv_row(line) ==
    LET item_number == strip(str(line.item_number))
        color_number == strip(str(line.color_number))
        raw_quantity == strip(str(line.quantity))
    IN  [put_id |-> str(line.put_id),
         po_number |-> str(line.order_id),
         item_number |-> normalize_item_number(Str(item_number)),
         color_number |-> normalize_kleurnummer(Str(color_number)),
         quantity |-> IF has_dot(raw_quantity) THEN before_dot(raw_quantity)
                      ELSE raw_quantity]

fetch_put_lines_csv(lines) == list([i \in 1..Len(lines) |-> csv_row(lines[i])])

-----------------------------------------------------------------------------
(* merge_put_lines_to_excel *)

\* pd.to_numeric(errors='coerce').fillna(0).astype(int)
to_int(v) ==
    CASE v.k \in {"int", "float"} -> v.n
      [] v.k = "str" /\ isdigit(v.s) -> str_to_int(v.s)
      [] v.k = "str" /\ is_float_text(v.s) -> float_of_text(v.s).n
      [] OTHER -> 0

normalize_csv(df) ==
    list([i \in 1..Len(df) |->
        [put_id |-> strip(str(df[i].put_id)),
         po_number |-> normalize_order_number(df[i].po_number),
         item_number |-> normalize_item_number(df[i].item_number),
         color_number |-> normalize_kleurnummer(df[i].color_number),
         quantity |-> to_int(df[i].quantity)]])

csv_key(row) == <<row.po_number, row.item_number, row.color_number>>

\* the loop without its test: the last put_id seen for a key stays
RECURSIVE build_mapping_last(_, _)
build_mapping_last(df, m) ==
    IF df = <<>> THEN m
    ELSE LET row == Head(df)
             key == csv_key(row)
         IN  build_mapping_last(Tail(df),
                 IF key \notin DOMAIN m THEN m @@ (key :> row.put_id)
                 ELSE [m EXCEPT ![key] = row.put_id])

\* the loop over df_csv.iterrows(): the first put_id seen for a key stays
RECURSIVE build_mapping(_, _)
build_mapping(df, m) ==
    IF df = <<>> THEN m
    ELSE LET row == Head(df)
             key == csv_key(row)
         IN  build_mapping(Tail(df),
                 IF key \notin DOMAIN m THEN m @@ (key :> row.put_id) ELSE m)

\* the grouping that keeps the last quantity of a put_id instead of the sum
RECURSIVE group_last(_, _)
group_last(df, m) ==
    IF df = <<>> THEN m
    ELSE LET row == Head(df)
         IN  group_last(Tail(df),
                 IF row.put_id \in DOMAIN m
                 THEN [m EXCEPT ![row.put_id] = row.quantity]
                 ELSE m @@ (row.put_id :> row.quantity))

\* df_csv.groupby('put_id')['quantity'].sum()
RECURSIVE group_sum(_, _)
group_sum(df, m) ==
    IF df = <<>> THEN m
    ELSE LET row == Head(df)
         IN  group_sum(Tail(df),
                 IF row.put_id \in DOMAIN m
                 THEN [m EXCEPT ![row.put_id] = @ + row.quantity]
                 ELSE m @@ (row.put_id :> row.quantity))

\* the three identifier columns after lines 160-162
normalize_excel(row) ==
    dict([c \in DOMAIN row |->
        CASE c = "Artikelnummer" -> Str(normalize_item_number(row[c]))
          [] c = "Kleurnummer" -> Str(normalize_kleurnummer(row[c]))
          [] c = "Ordernr." -> Str(normalize_order_number(row[c]))
          [] OTHER -> row[c]])

excel_key(row) == <<str(row["Ordernr."]), str(row["Artikelnummer"]), str(row["Kleurnummer"])>>

\* fill_put without its test of the PUT cell
fill_put_always(row, m) ==
    IF excel_key(row) \in DOMAIN m THEN Str(m[excel_key(row)]) ELSE Str(<<>>)

\* fill_put with mapping.get(key): None for a key that is absent
fill_put_none(row, m) ==
    IF "PUT" \notin DOMAIN row \/ isna(row["PUT"]) \/ strip(str(row["PUT"])) = <<>>
    THEN IF excel_key(row) \in DOMAIN m THEN Str(m[excel_key(row)]) ELSE NaN
    ELSE row["PUT"]

fill_put(row, m) ==
    IF "PUT" \notin DOMAIN row \/ isna(row["PUT"]) \/ strip(str(row["PUT"])) = <<>>
    THEN IF excel_key(row) \in DOMAIN m THEN Str(m[excel_key(row)]) ELSE Str(<<>>)
    ELSE row["PUT"]

\* should_update that takes every cell for a blank one
should_update_always(q) == TRUE

should_update(q) ==
    IF isna(q) THEN TRUE
    ELSE LET s == strip(str(q)) IN s = <<>> \/ s = <<"0">>

get_received_qty(row, col_name, rq) ==
    LET existing == IF col_name \in DOMAIN row THEN row[col_name] ELSE Str(<<>>)
    IN  IF should_update(existing)
        THEN LET put_id == strip(str(row["PUT"]))
             IN  IF put_id \in DOMAIN rq THEN Int_(rq[put_id]) ELSE Str(<<>>)
        ELSE existing

\* row after line 185-187: PUT filled, Artikelnummer and Ordernr. rewritten
with_put(row, m) ==
    LET r == normalize_excel(row)
    IN  dict([c \in DOMAIN r \cup {"PUT"} |->
            CASE c = "PUT" -> fill_put(r, m)
              [] c = "Artikelnummer" -> Str(strip_leading_zeros(r[c]))
              [] c = "Ordernr." -> Str(normalize_order_number(r[c]))
              [] OTHER -> r[c]])

has_col(columns, c) == \E i \in 1..Len(columns) : columns[i] = c

\* lines 191-195: the received-quantity column of the sheet, "" when it has none
find_col_name(columns) ==
    IF has_col(columns, "Received Quantity") THEN "Received Quantity"
    ELSE IF has_col(columns, "Received Quantities") THEN "Received Quantities"
    ELSE ""

InsertAt == 8

\* df_excel.insert(8, col_name, ""): position 8 must exist
insert_col(columns, c) ==
    SubSeq(columns, 1, InsertAt) \o <<c>> \o SubSeq(columns, InsertAt + 1, Len(columns))

\* The Series that df.apply(..., axis=1) returns is typed as a whole: whole
\* numbers beside floats, with no string among them, become floats.
apply_result(cells) ==
    LET n == Len(cells)
        numeric == \A i \in 1..n : cells[i].k \in {"int", "float"}
        has_float == \E i \in 1..n : cells[i].k = "float"
    IN  list([i \in 1..n |->
            IF cells[i].k = "int" /\ numeric /\ has_float
            THEN Flt(cells[i].n, <<"0">>)
            ELSE cells[i]])

\* The outcome of merge_put_lines_to_excel(excel_file, csv_buffer): the frame
\* it returns and its two dicts, or the exception it raises.
merge_put_lines_to_excel(file, buf) ==
    LET df == read_excel(file)
        df_csv == normalize_csv(read_csv(buf))
        m == build_mapping(df_csv, EmptyDict)
        n == Len(df.rows)
        rows1 == list([i \in 1..n |-> with_put(df.rows[i], m)])
        columns1 == IF has_col(df.columns, "PUT") THEN df.columns
                    ELSE Append(df.columns, "PUT")
        found == find_col_name(columns1)
        col_name == IF found = "" THEN "Received Quantity" ELSE found
        columns2 == IF found = "" THEN insert_col(columns1, col_name) ELSE columns1
        rq == group_sum(df_csv, EmptyDict)
        qty == apply_result(
                   list([i \in 1..n |-> get_received_qty(rows1[i], found, rq)]))
        rows2 == list([i \in 1..n |->
                     dict([c \in DOMAIN rows1[i] \cup {col_name} |->
                         IF c = col_name THEN qty[i] ELSE rows1[i][c]])])
    IN  IF found = "" /\ Len(columns1) < InsertAt
        THEN [error |-> "IndexError", df |-> <<>>, mapping |-> m,
              received_quantity |-> EmptyDict]
        ELSE [error |-> "none", df |-> [columns |-> columns2, rows |-> rows2],
              mapping |-> m, received_quantity |-> rq]

-----------------------------------------------------------------------------
(* The two steps of the page: 'Fetch PUT Lines' stores the CSV in the      *)
(* session, and an upload merges it into the sheet.                        *)

MaxLines == 2
MaxRows == 2

KeyColumns == <<"Ordernr.", "Artikelnummer", "Kleurnummer">>
OtherColumns == <<"Omschrijving", "Maat", "Aantal", "Leverdatum">>
QtyColumns == {"Received Quantity", "Received Quantities"}

\* the layouts of the uploaded sheet: with and without the PUT and the
\* received-quantity column, and one of fewer than eight columns
SheetColumns ==
    {KeyColumns \o OtherColumns \o <<"PUT", "Received Quantity">>,
     KeyColumns \o OtherColumns \o <<"PUT", "Received Quantities">>,
     KeyColumns \o OtherColumns \o <<"PUT">>,
     KeyColumns \o OtherColumns \o <<"Received Quantity">>,
     KeyColumns \o <<"PUT">>}

AB == <<"A", "B">>

\* the cells of the uploaded sheet, column by column, as the operator typed
\* them: a blank (NaN), a whole number or a text
CellPool(c) ==
    CASE c = "Ordernr." -> {Int_(7)}
      [] c = "Artikelnummer" -> {Int_(12)}
      [] c = "Kleurnummer" -> {Int_(5), Str(AB)}
      [] c = "PUT" -> {NaN, Str(<<" ">>), Int_(1)}
      [] c \in QtyColumns -> {NaN, Int_(0), Int_(7), Str(<<" ">>)}
      [] OTHER -> {Str(<<"x">>)}

\* the same for the sheets whose identifiers vary
JoinCellPool(c) ==
    CASE c = "Ordernr." -> {Int_(7), Str(<<"7", ".", "0">>)}
      [] c = "Artikelnummer" -> {Int_(12), Str(<<"0", "1", "2">>)}
      [] c = "Kleurnummer" -> {Int_(5), Str(<<"5">>), Str(AB)}
      [] c = "PUT" -> {NaN}
      [] c \in QtyColumns -> {NaN}
      [] OTHER -> {Str(<<"x">>)}

RECURSIVE RowsOf(_, _)
RowsOf(columns, join) ==
    IF columns = <<>> THEN {EmptyDict}
    ELSE {(Head(columns) :> v) @@ r :
             v \in IF join THEN JoinCellPool(Head(columns)) ELSE CellPool(Head(columns)),
             r \in RowsOf(Tail(columns), join)}

\* a row of another colour than the lines' is a blank one
FillRows(columns) ==
    {r \in RowsOf(columns, FALSE) :
        r["Kleurnummer"] = Str(AB) =>
            \A c \in DOMAIN r \cap ({"PUT"} \cup QtyColumns) : isna(r[c])}

SeqsUpTo(S, n) == UNION {[1..k -> S] : k \in 1..n}

\* Sheets of one or two rows: the rows are merged one by one, and two rows are
\* what a column needs to hold a number beside a blank or beside a text.
Sheets ==
    UNION {{[columns |-> columns, rows |-> rows] :
               rows \in SeqsUpTo(FillRows(columns), MaxRows)} :
           columns \in SheetColumns}

JoinSheets ==
    LET columns == KeyColumns \o OtherColumns \o <<"PUT", "Received Quantity">>
    IN  {[columns |-> columns, rows |-> rows] :
            rows \in SeqsUpTo(RowsOf(columns, TRUE), MaxRows)}

\* the lines the API returns for the PUTs, in fetch order
ApiLines ==
    [put_id : {Int_(1), Int_(2)},
     order_id : {Int_(7)},
     item_number : {Str(<<"1", "2">>)},
     color_number : {Str(<<"5">>), Str(AB)},
     quantity : {Str(<<"3">>)}]
    \cup
    [put_id : {Int_(1)},
     order_id : {Int_(7)},
     item_number : {Str(<<"1", "2">>)},
     color_number : {Str(<<"5">>)},
     quantity : {Str(<<"4", ".", "0">>)}]

JoinApiLines ==
    [put_id : {Int_(1)},
     order_id : {Int_(7)},
     item_number : {Str(<<"1", "2">>), Str(<<"0", "1", "2">>)},
     color_number : {Str(<<"5">>), Str(<<"1", "2", "3">>), Str(AB)},
     quantity : {Str(<<"3">>)}]

NoResp == [status |-> 0]

NoFetch ==
    /\ fpc = "idle"
    /\ current_page = 1
    /\ put_ids = <<>>
    /\ fetched = 0
    /\ http_log = <<>>
    /\ resp = NoResp
    /\ now = 0
    /\ session_token = 0
    /\ token_expiry = 0
    /\ token = 0

NoCall ==
    /\ server = [always |-> FALSE, rejects |-> 0]
    /\ attempts = 0
    /\ returned = NoResp

NoMerge ==
    /\ api_lines = <<>>
    /\ csv_buffer = <<>>
    /\ excel_file = <<>>
    /\ df_excel = <<>>
    /\ mapping = EmptyDict
    /\ received_quantity = EmptyDict
    /\ merges = 0
    /\ merge_error = "none"

NoNorm ==
    /\ fn = "none"
    /\ x = NaN
    /\ y = NaN
    /\ first = NaN
    /\ applied = 0

InitMerge ==
    /\ api_lines \in SeqsUpTo(ApiLines, MaxLines)
    /\ excel_file \in Sheets
    /\ csv_buffer = <<>>
    /\ df_excel = <<>>
    /\ mapping = EmptyDict
    /\ received_quantity = EmptyDict
    /\ merges = 0
    /\ merge_error = "none"
    /\ NoNorm
    /\ NoFetch
    /\ NoCall

InitJoin ==
    /\ api_lines \in SeqsUpTo(JoinApiLines, MaxLines)
    /\ excel_file \in JoinSheets
    /\ csv_buffer = <<>>
    /\ df_excel = <<>>
    /\ mapping = EmptyDict
    /\ received_quantity = EmptyDict
    /\ merges = 0
    /\ merge_error = "none"
    /\ NoNorm
    /\ NoFetch
    /\ NoCall

\* Step 1: fetch_put_lines_csv writes one row per line
FetchPutLines ==
    /\ csv_buffer = <<>>
    /\ csv_buffer' = fetch_put_lines_csv(api_lines)
    /\ UNCHANGED <<api_lines, excel_file, df_excel, mapping, received_quantity,
                   merges, merge_error, normVars, fetchVars, callVars>>

\* Step 2: the upload is merged with the stored CSV
Merge ==
    /\ csv_buffer # <<>>
    /\ merges = 0
    /\ LET out == merge_put_lines_to_excel(excel_file, csv_buffer)
       IN  /\ df_excel' = out.df
           /\ mapping' = out.mapping
           /\ received_quantity' = out.received_quantity
           /\ merge_error' = out.error
    /\ merges' = merges + 1
    /\ UNCHANGED <<api_lines, csv_buffer, excel_file, normVars, fetchVars, callVars>>

\* df_updated.to_excel(writer, index=False), as the sheet is read when it is
\* uploaded again: an empty string and NaN are blank cells, a whole float is
\* the number
to_excel(df) ==
    [columns |-> df.columns,
     rows |-> list([i \in 1..Len(df.rows) |->
                  dict([c \in DOMAIN df.rows[i] |->
                      LET v == df.rows[i][c]
                      IN  IF v.k = "str" /\ v.s = <<>> THEN NaN
                          ELSE IF v.k = "float" /\ v.frac = <<"0">> THEN Int_(v.n)
                          ELSE v])])]

\* Step 2 again: the operator uploads the sheet that the merge produced
Reupload ==
    /\ merges = 1
    /\ merge_error = "none"
    /\ LET file == to_excel(df_excel)
           out == merge_put_lines_to_excel(file, csv_buffer)
       IN  /\ excel_file' = file
           /\ df_excel' = out.df
           /\ mapping' = out.mapping
           /\ received_quantity' = out.received_quantity
           /\ merge_error' = out.error
    /\ merges' = merges + 1
    /\ UNCHANGED <<api_lines, csv_buffer, normVars, fetchVars, callVars>>

NextMerge == FetchPutLines \/ Merge \/ Reupload

SpecMerge == InitMerge /\ [][NextMerge]_vars

SpecJoin == InitJoin /\ [][NextMerge]_vars

-----------------------------------------------------------------------------
(* The rate-limited fetcher *)

MAX_RATE_LIMIT_SLEEP == 10

\* headers.get(name, default)
get(headers, name, default) ==
    IF name \in DOMAIN headers THEN headers[name] ELSE default

\* int(s) of a header value: the number, or no number (a ValueError)
parse_int(s) ==
    IF isdigit(strip(s)) THEN [ok |-> TRUE, n |-> str_to_int(strip(s))]
    ELSE [ok |-> FALSE, n |-> 0]

Max(a, b) == IF a >= b THEN a ELSE b
Min(a, b) == IF a <= b THEN a ELSE b

\* handle_rate_limits without the upper clamp
handle_rate_limits_unclamped(r) ==
    LET bucket_size == parse_int(get(r.headers, "X-Bucket-Size", <<"1", "0", "0">>)).n
        marbles == parse_int(get(r.headers, "X-Marbles-In-Bucket", <<"0">>)).n
        remaining == IF "X-Remaining-Requests" \in DOMAIN r.headers
                     THEN parse_int(r.headers["X-Remaining-Requests"]).n
                     ELSE bucket_size
        calculated_wait == (marbles - remaining + 2) * 4
    IN  IF marbles >= bucket_size - 2 \/ remaining <= 2
        THEN Max(calculated_wait, 1)
        ELSE 0

\* the seconds handle_rate_limits sleeps after a response, 0 for none
handle_rate_limits(r) ==
    LET bucket_size == parse_int(get(r.headers, "X-Bucket-Size", <<"1", "0", "0">>)).n
        marbles == parse_int(get(r.headers, "X-Marbles-In-Bucket", <<"0">>)).n
        remaining == IF "X-Remaining-Requests" \in DOMAIN r.headers
                     THEN parse_int(r.headers["X-Remaining-Requests"]).n
                     ELSE bucket_size
        calculated_wait == (marbles - remaining + 2) * 4
    IN  IF marbles >= bucket_size - 2 \/ remaining <= 2
        THEN Min(Max(calculated_wait, 1), MAX_RATE_LIMIT_SLEEP)
        ELSE 0

\* safe_get that hands a 429 to its caller
safe_get_no_retry(r) == [retry |-> FALSE, sleep |-> handle_rate_limits(r)]

\* safe_get that also goes round again on an error status
safe_get_retry_errors(r) ==
    IF r.status >= 400 THEN [retry |-> TRUE, sleep |-> 3]
    ELSE [retry |-> FALSE, sleep |-> handle_rate_limits(r)]

\* One pass of the loop of safe_get on the response r: sleep 3 seconds and
\* go round again on a 429, else throttle and return r.
safe_get(r) ==
    IF r.status = 429 THEN [retry |-> TRUE, sleep |-> 3]
    ELSE [retry |-> FALSE, sleep |-> handle_rate_limits(r)]

-----------------------------------------------------------------------------
(* The paginated collector *)

\* get_all_puts with > for >=: it asks for a page beyond the last one
page_decision_gt(r, page) ==
    LET current == IF "X-Pagination-Current-Page" \in DOMAIN r.headers
                   THEN parse_int(r.headers["X-Pagination-Current-Page"])
                   ELSE [ok |-> TRUE, n |-> page]
        total_pages == IF "X-Pagination-Page-Count" \in DOMAIN r.headers
                       THEN parse_int(r.headers["X-Pagination-Page-Count"])
                       ELSE current
    IN  IF ~current.ok \/ ~total_pages.ok THEN "break"
        ELSE IF current.n > total_pages.n THEN "break"
        ELSE "next"

\* get_all_puts, lines 97-105: stop after this page, or go on to the next
page_decision(r, page) ==
    LET current == IF "X-Pagination-Current-Page" \in DOMAIN r.headers
                   THEN parse_int(r.headers["X-Pagination-Current-Page"])
                   ELSE [ok |-> TRUE, n |-> page]
        total_pages == IF "X-Pagination-Page-Count" \in DOMAIN r.headers
                       THEN parse_int(r.headers["X-Pagination-Page-Count"])
                       ELSE current
    IN  IF ~current.ok \/ ~total_pages.ok THEN "break"
        ELSE IF current.n >= total_pages.n THEN "break"
        ELSE "next"

\* raise_for_status that lets every status pass
raises_never(r) == FALSE

\* resp.raise_for_status()
raises(r) == r.status >= 400

\* ensure_valid_token at time t: the session's token, renewed when absent or
\* expired, with the lifetime the authentication answers
ensure_valid_token(t, expires_in) ==
    IF session_token = 0 \/ t > token_expiry
    THEN [token |-> session_token + 1, expiry |-> t + expires_in - 60]
    ELSE [token |-> session_token, expiry |-> token_expiry]

-----------------------------------------------------------------------------
(* A collection run against a server that answers as it likes *)

MaxRequests == 4

ExpiresIn == {64, 1740}

RateHeaders ==
    {EmptyDict,
     ("X-Bucket-Size" :> <<"1", "0", "0">>) @@ ("X-Marbles-In-Bucket" :> <<"9", "8">>)
        @@ ("X-Remaining-Requests" :> <<"2">>)}

Current(c) == "X-Pagination-Current-Page" :> c
Count(n) == "X-Pagination-Page-Count" :> n

\* the pagination headers of a listing response: none, both, one of the two,
\* or one that is no number
PageHeaders ==
    {EmptyDict,
     Current(<<"1">>) @@ Count(<<"2">>),
     Current(<<"2">>) @@ Count(<<"2">>),
     Count(<<"2">>),
     Current(<<"1">>),
     Current(<<"1">>) @@ Count(<<"x">>),
     Current(<<"x">>) @@ Count(<<"2">>)}

the_line(put_id) ==
    [put_id |-> Int_(put_id), order_id |-> Int_(7), item_number |-> Str(<<"1", "2">>),
     color_number |-> Str(<<"5">>), quantity |-> Str(<<"3">>)]

Response(status, headers, ids, lines) ==
    [status |-> status, headers |-> headers, ids |-> ids, lines |-> lines]

ErrorResponses == {Response(s, EmptyDict, <<>>, <<>>) : s \in {429, 500}}

ListResponses(page) ==
    ErrorResponses \cup
    {Response(200, rate @@ pages, ids, <<>>) :
        rate \in RateHeaders, pages \in PageHeaders, ids \in {<<>>, <<page>>}}

DetailResponses(put_id) ==
    ErrorResponses \cup
    {Response(200, rate, <<>>, lines) :
        rate \in RateHeaders, lines \in {<<>>, <<the_line(put_id)>>}}

InitFetch == NoFetch /\ NoMerge /\ NoNorm /\ NoCall

\* the loop over put_ids taken from the last id backwards
next_put_id_reversed == put_ids[Len(put_ids) - fetched]

\* for idx, put_id in enumerate(put_ids): the PUT of the next get_put_lines
next_put_id == put_ids[fetched + 1]

\* the GET that the run sends next
Request ==
    IF fpc = "listing"
    THEN [kind |-> "list", arg |-> current_page, token |-> token, at |-> now]
    ELSE [kind |-> "detail", arg |-> next_put_id, token |-> token, at |-> now]

Logged(r) == Append(http_log, [request |-> Request, response |-> r,
                               slept |-> safe_get(r).sleep])

\* 'Fetch PUT Lines': fetch_put_lines_csv calls get_all_puts, which takes the
\* token and starts at page 1
StartFetch ==
    /\ fpc = "idle"
    /\ \E expires_in \in ExpiresIn :
           LET valid == ensure_valid_token(now, expires_in)
           IN  /\ token' = valid.token
               /\ session_token' = valid.token
               /\ token_expiry' = valid.expiry
    /\ fpc' = "listing"
    /\ current_page' = 1
    /\ put_ids' = <<>>
    /\ UNCHANGED <<fetched, http_log, resp, now, mergeVars, normVars, callVars>>

\* safe_get gets a 429: it sleeps and asks again
Retry ==
    /\ fpc \in {"listing", "details"}
    /\ Len(http_log) < MaxRequests
    /\ \E r \in ErrorResponses :
           /\ safe_get(r).retry
           /\ http_log' = Logged(r)
           /\ now' = now + 1 + safe_get(r).sleep
    /\ UNCHANGED <<fpc, current_page, put_ids, fetched, resp, session_token,
                   token_expiry, token, mergeVars, normVars, callVars>>

\* the token of the next get_put_lines, taken when the call starts
NextToken(t) ==
    \E expires_in \in ExpiresIn :
        LET valid == ensure_valid_token(t, expires_in)
        IN  /\ token' = valid.token
            /\ session_token' = valid.token
            /\ token_expiry' = valid.expiry

\* safe_get returns a page of the listing, one of responses, to get_all_puts
ListPageOf(responses) ==
    /\ fpc = "listing"
    /\ Len(http_log) < MaxRequests
    /\ \E r \in responses :
           /\ ~safe_get(r).retry
           /\ http_log' = Logged(r)
           /\ now' = now + 1 + safe_get(r).sleep
           /\ resp' = r
           /\ IF raises(r)
              THEN /\ fpc' = "failed"
                   /\ UNCHANGED <<current_page, put_ids, session_token, token_expiry,
                                  token, csv_buffer>>
              ELSE /\ put_ids' = put_ids \o r.ids
                   /\ IF page_decision(r, current_page) = "next"
                      THEN /\ current_page' = current_page + 1
                           /\ UNCHANGED <<fpc, session_token, token_expiry, token,
                                          csv_buffer>>
                      ELSE /\ UNCHANGED current_page
                           /\ IF put_ids' = <<>>
                              THEN /\ fpc' = "done"
                                   /\ csv_buffer' = fetch_put_lines_csv(api_lines)
                                   /\ UNCHANGED <<session_token, token_expiry, token>>
                              ELSE /\ fpc' = "details"
                                   /\ NextToken(now')
                                   /\ UNCHANGED csv_buffer
    /\ UNCHANGED <<fetched, api_lines, excel_file, df_excel, mapping,
                   received_quantity, merges, merge_error, normVars, callVars>>

\* safe_get returns the lines of one PUT to get_put_lines
DetailPage ==
    /\ fpc = "details"
    /\ Len(http_log) < MaxRequests
    /\ \E r \in DetailResponses(next_put_id) :
           /\ ~safe_get(r).retry
           /\ http_log' = Logged(r)
           /\ now' = now + 1 + safe_get(r).sleep
           /\ resp' = r
           /\ IF raises(r)
              THEN /\ fpc' = "failed"
                   /\ UNCHANGED <<fetched, api_lines, csv_buffer, session_token,
                                  token_expiry, token>>
              ELSE /\ api_lines' = api_lines \o r.lines
                   /\ fetched' = fetched + 1
                   /\ IF fetched' = Len(put_ids)
                      THEN /\ fpc' = "done"
                           /\ csv_buffer' = fetch_put_lines_csv(api_lines')
                           /\ UNCHANGED <<session_token, token_expiry, token>>
                      ELSE /\ NextToken(now')
                           /\ UNCHANGED <<fpc, csv_buffer>>
    /\ UNCHANGED <<current_page, put_ids, excel_file, df_excel, mapping,
                   received_quantity, merges, merge_error, normVars, callVars>>

ListPage == ListPageOf(ListResponses(current_page))

NextFetch == StartFetch \/ Retry \/ ListPage \/ DetailPage

SpecFetch == InitFetch /\ [][NextFetch]_vars

-----------------------------------------------------------------------------
(* The throttle on its own: one listing request, answered with any of the  *)
(* token-bucket headers.                                                   *)

Header(name, values) ==
    {EmptyDict} \cup {name :> v : v \in values}

BucketHeaders ==
    {b @@ m @@ r :
        b \in Header("X-Bucket-Size", {<<"1", "0", "0">>, <<"1", "0">>, <<"2">>}),
        m \in Header("X-Marbles-In-Bucket", {<<"0">>, <<"2">>, <<"9">>, <<"9", "8">>}),
        r \in Header("X-Remaining-Requests", {<<"0">>, <<"2">>, <<"3">>, <<"5", "0">>})}

ThrottleResponses ==
    {Response(s, h, <<>>, <<>>) : s \in {200, 500}, h \in BucketHeaders}

ThrottledPage == ListPageOf(ThrottleResponses)

NextThrottle == StartFetch \/ ThrottledPage

SpecThrottle == InitFetch /\ [][NextThrottle]_vars

-----------------------------------------------------------------------------
(* One call of safe_get against a server that has made up its mind: it     *)
(* answers 429 to every attempt, or to a number of attempts and then with   *)
(* another status.                                                          *)

MaxRejects == 3
MaxAttempts == 5

ServerPlans ==
    {[always |-> TRUE, rejects |-> 0]}
        \cup {[always |-> FALSE, rejects |-> k] : k \in 0..MaxRejects}

InitSafeGet ==
    /\ server \in ServerPlans
    /\ attempts = 0
    /\ returned = NoResp
    /\ NoFetch
    /\ NoMerge
    /\ NoNorm

\* what the server answers to the next attempt
Answers ==
    IF server.always \/ attempts < server.rejects
    THEN {Response(429, EmptyDict, <<>>, <<>>)}
    ELSE ThrottleResponses

\* One pass of the loop of safe_get: a GET, and then again or the return.
\* The count of the attempts stops at MaxAttempts; the loop does not.
Attempt ==
    /\ returned = NoResp
    /\ \E r \in Answers :
           /\ attempts' = Min(attempts + 1, MaxAttempts)
           /\ returned' = IF safe_get(r).retry THEN NoResp ELSE r
    /\ UNCHANGED <<server, normVars, mergeVars, fetchVars>>

NextSafeGet == Attempt

\* the loop runs on: the thread does nothing else
SpecSafeGet == InitSafeGet /\ [][NextSafeGet]_vars /\ WF_vars(Attempt)

-----------------------------------------------------------------------------
(* The canonicalization harness: one of the three functions is applied to  *)
(* an input, and applied again to its own result.                          *)

MaxLen == 3
MaxDigits == 8
MaxApply == 2

Alphabet == {"0", "1", ".", " ", "A"}

RECURSIVE StringsOfLen(_)
StringsOfLen(n) ==
    IF n = 0 THEN {<<>>}
    ELSE {Append(s, c) : s \in StringsOfLen(n - 1), c \in Alphabet}

Strings == UNION {StringsOfLen(n) : n \in 0..MaxLen}

DigitRuns == {[i \in 1..n |-> "1"] : n \in 1..MaxDigits}

NormInputs ==
    {Str(s) : s \in Strings \cup DigitRuns}
        \cup {Int_(n) : n \in {0, 5, 12, 123}}
        \cup {Flt(n, <<"0">>) : n \in {5, 123}}
        \cup {NaN}

InitNorm ==
    /\ fn \in {"item", "order", "color"}
    /\ x \in NormInputs
    /\ y = x
    /\ first = x
    /\ applied = 0
    /\ NoMerge
    /\ NoFetch
    /\ NoCall

Normalized(f, v) ==
    CASE f = "item" -> Str(normalize_item_number(v))
      [] f = "order" -> Str(normalize_order_number(v))
      [] f = "color" -> Str(normalize_kleurnummer(v))

ApplyItem ==
    /\ fn = "item"
    /\ applied < MaxApply
    /\ y' = Normalized("item", y)
    /\ first' = IF applied = 0 THEN y' ELSE first
    /\ applied' = applied + 1
    /\ UNCHANGED <<fn, x, mergeVars, fetchVars, callVars>>

ApplyOrder ==
    /\ fn = "order"
    /\ applied < MaxApply
    /\ y' = Normalized("order", y)
    /\ first' = IF applied = 0 THEN y' ELSE first
    /\ applied' = applied + 1
    /\ UNCHANGED <<fn, x, mergeVars, fetchVars, callVars>>

ApplyColor ==
    /\ fn = "color"
    /\ applied < MaxApply
    /\ y' = Normalized("color", y)
    /\ first' = IF applied = 0 THEN y' ELSE first
    /\ applied' = applied + 1
    /\ UNCHANGED <<fn, x, mergeVars, fetchVars, callVars>>

NextNorm == ApplyItem \/ ApplyOrder \/ ApplyColor

SpecNorm == InitNorm /\ [][NextNorm]_vars

-----------------------------------------------------------------------------
(* What the claims speak of *)

\* the frame read from the upload, before anything is merged into it
before == read_excel(excel_file)

\* the lines as the merge reads and canonicalizes them
df_lines == normalize_csv(read_csv(csv_buffer))

Merged == merges = 1 /\ merge_error = "none"

RowIdx == 1..Len(excel_file.rows)

\* the received-quantity column of the upload, "" when it has none
QtyCol == find_col_name(excel_file.columns)

QtyColAfter == IF QtyCol = "" THEN "Received Quantity" ELSE QtyCol

HasPut == has_col(excel_file.columns, "PUT")

IsBlank(v) == isna(v) \/ (v.k = "str" /\ strip(v.s) = <<>>)

IsZero(v) ==
    \/ v.k = "int" /\ v.n = 0
    \/ v.k = "float" /\ v.n = 0 /\ v.frac = <<"0">>
    \/ v.k = "str" /\ strip(v.s) = <<"0">>

\* the number n, as an int or as a float
IsNumber(v, n) ==
    \/ v.k = "int" /\ v.n = n
    \/ v.k = "float" /\ v.n = n /\ v.frac = <<"0">>

\* the canonical (order, item, color) key of a row of the upload
CanonKey(row) ==
    <<normalize_order_number(row["Ordernr."]),
      normalize_item_number(row["Artikelnummer"]),
      normalize_kleurnummer(row["Kleurnummer"])>>

\* the shipment identifier a merged row ends with
ResolvedPut(i) == strip(str(df_excel.rows[i]["PUT"]))

-----------------------------------------------------------------------------
\* C1: a received-quantity cell that holds a non-zero value before the merge
\* holds the same value after it, whatever the shipment lines are.
C1_NonZeroKept ==
    Merged =>
        \A i \in RowIdx :
            (QtyCol # "" /\ ~IsBlank(before.rows[i][QtyCol])
                /\ ~IsZero(before.rows[i][QtyCol]))
            => df_excel.rows[i][QtyCol] = before.rows[i][QtyCol]

\* a kept cell of a row whose PUT has another summed quantity
C1_Witness ==
    /\ Merged
    /\ QtyCol # ""
    /\ \E i \in RowIdx :
           /\ IsNumber(before.rows[i][QtyCol], 7)
           /\ df_excel.rows[i][QtyCol] = before.rows[i][QtyCol]
           /\ ResolvedPut(i) \in DOMAIN received_quantity
           /\ received_quantity[ResolvedPut(i)] # 7

\* C2: a row whose PUT cell is blank or absent gets the identifier the
\* mapping holds for its canonical key, and a blank when the key is absent.
C2_BlankFill ==
    Merged =>
        \A i \in RowIdx :
            (~HasPut \/ IsBlank(before.rows[i]["PUT"]))
            => df_excel.rows[i]["PUT"] =
                   IF CanonKey(before.rows[i]) \in DOMAIN mapping
                   THEN Str(mapping[CanonKey(before.rows[i])])
                   ELSE Str(<<>>)

\* a blank row that is filled beside a blank row whose key is absent
C2_Witness ==
    /\ Merged
    /\ \E i, j \in RowIdx :
           /\ HasPut /\ IsBlank(before.rows[i]["PUT"]) /\ IsBlank(before.rows[j]["PUT"])
           /\ CanonKey(before.rows[i]) \in DOMAIN mapping
           /\ df_excel.rows[i]["PUT"] \in {Str(<<"1">>), Str(<<"2">>)}
           /\ CanonKey(before.rows[j]) \notin DOMAIN mapping
           /\ df_excel.rows[j]["PUT"] = Str(<<>>)

\* C3: every key of the mapping maps to the put_id of the earliest line, in
\* input order, that has this canonical key.
C3_FirstWriteWins ==
    merges = 1 =>
        /\ DOMAIN mapping = {csv_key(df_lines[i]) : i \in 1..Len(df_lines)}
        /\ \A i \in 1..Len(df_lines) :
               LET earliest == CHOOSE j \in 1..i :
                       /\ csv_key(df_lines[j]) = csv_key(df_lines[i])
                       /\ \A k \in 1..(j - 1) : csv_key(df_lines[k]) # csv_key(df_lines[i])
               IN  mapping[csv_key(df_lines[i])] = str(api_lines[earliest].put_id)

\* two lines of one key and two PUTs
C3_Witness ==
    /\ merges = 1
    /\ \E i, j \in 1..Len(df_lines) :
           /\ i < j
           /\ csv_key(df_lines[i]) = csv_key(df_lines[j])
           /\ api_lines[i].put_id # api_lines[j].put_id
           /\ mapping[csv_key(df_lines[j])] = str(api_lines[i].put_id)

\* C7: a fetched line and a row of the sheet whose raw order, item and color
\* identifiers are equal get the same composite key, the line's canonicalized
\* when it is collected and again in the merge, the row's once in the merge.
C7_SameKey ==
    merges = 1 =>
        \A i \in 1..Len(api_lines), j \in RowIdx :
            (/\ str(api_lines[i].order_id) = str(excel_file.rows[j]["Ordernr."])
             /\ str(api_lines[i].item_number) = str(excel_file.rows[j]["Artikelnummer"])
             /\ str(api_lines[i].color_number) = str(excel_file.rows[j]["Kleurnummer"]))
            => /\ csv_key(df_lines[i]) = CanonKey(before.rows[j])
               /\ CanonKey(before.rows[j]) \in DOMAIN mapping

\* C8: a received-quantity cell that is blank, absent or zero before the merge
\* holds afterwards the summed quantity of the row's resolved PUT, or a blank
\* when that PUT has none.
C8_BlankOrZeroFilled ==
    Merged =>
        \A i \in RowIdx :
            (QtyCol = "" \/ IsBlank(before.rows[i][QtyCol])
                \/ IsZero(before.rows[i][QtyCol]))
            => IF ResolvedPut(i) \in DOMAIN received_quantity
               THEN IsNumber(df_excel.rows[i][QtyColAfter],
                             received_quantity[ResolvedPut(i)])
               ELSE df_excel.rows[i][QtyColAfter] = Str(<<>>)

\* C9: the merge changes the PUT and the received-quantity field only: every
\* other field of every row reads after the merge as it read before.
C9_Frame ==
    Merged =>
        \A i \in RowIdx :
            \A c \in DOMAIN before.rows[i] \ {"PUT", QtyCol} :
                str(df_excel.rows[i][c]) = str(before.rows[i][c])

\* C10: a PUT cell that is not blank before the merge holds the same value
\* after it, also when the mapping has another put_id for the row's key.
C10_PutKept ==
    Merged =>
        \A i \in RowIdx :
            (HasPut /\ ~IsBlank(before.rows[i]["PUT"]))
            => df_excel.rows[i]["PUT"] = before.rows[i]["PUT"]

\* a kept PUT whose key the mapping gives to another PUT
C10_Witness ==
    /\ Merged
    /\ HasPut
    /\ \E i \in RowIdx :
           /\ ~IsBlank(before.rows[i]["PUT"])
           /\ df_excel.rows[i]["PUT"] = before.rows[i]["PUT"]
           /\ CanonKey(before.rows[i]) \in DOMAIN mapping
           /\ mapping[CanonKey(before.rows[i])] # strip(str(before.rows[i]["PUT"]))

\* C4: safe_get sleeps 3 seconds after every 429 and sends the same request
\* again, however many there were, and never returns a 429 to its caller.
C4_RetryOn429 ==
    /\ resp.status # 429
    /\ \A i \in 1..Len(http_log) :
           http_log[i].response.status = 429 =>
               /\ http_log[i].slept = 3
               /\ i = Len(http_log) => fpc \in {"listing", "details"}
               /\ i < Len(http_log) =>
                      /\ http_log[i + 1].request.kind = http_log[i].request.kind
                      /\ http_log[i + 1].request.arg = http_log[i].request.arg
                      /\ http_log[i + 1].request.token = http_log[i].request.token
                      /\ http_log[i + 1].request.at >= http_log[i].request.at + 3

\* two 429s, then the answer that safe_get returns
C4_Witness ==
    /\ Len(http_log) >= 3
    /\ http_log[1].response.status = 429
    /\ http_log[2].response.status = 429
    /\ http_log[3].response.status = 200
    /\ resp = http_log[3].response

\* the listing pages that safe_get returned, in order
IsPage(e) == e.request.kind = "list" /\ e.response.status # 429

Pages == SelectSeq(http_log, IsPage)

\* a header that is there and is no number
Unparsable(r, name) == name \in DOMAIN r.headers /\ ~parse_int(r.headers[name]).ok

\* The page that ends the listing: a pagination header is no number, or there
\* is no page count, or the current page (the page asked for, when the
\* response does not name it) has reached the page count.
LastPage(e) ==
    LET r == e.response
        current == IF "X-Pagination-Current-Page" \in DOMAIN r.headers
                   THEN parse_int(r.headers["X-Pagination-Current-Page"]).n
                   ELSE e.request.arg
    IN  \/ Unparsable(r, "X-Pagination-Current-Page")
        \/ Unparsable(r, "X-Pagination-Page-Count")
        \/ "X-Pagination-Page-Count" \notin DOMAIN r.headers
        \/ current >= parse_int(r.headers["X-Pagination-Page-Count"]).n

RECURSIVE IdsOf(_)
IdsOf(pages) == IF pages = <<>> THEN <<>> ELSE Head(pages).response.ids \o IdsOf(Tail(pages))

\* C5: get_all_puts asks for the pages from 1 on and stops after the first
\* page that reports current >= total, or whose pagination headers are absent
\* or no numbers, and returns the ids of the pages so far without an error.
C5_Pagination ==
    LET n == Len(Pages)
    IN  /\ \A i \in 1..n : Pages[i].request.arg = i
        /\ \A i \in 1..(n - 1) : Pages[i].response.status = 200 /\ ~LastPage(Pages[i])
        /\ fpc = "listing" =>
               \A i \in 1..n : Pages[i].response.status = 200 /\ ~LastPage(Pages[i])
        /\ fpc \in {"details", "done"} =>
               /\ n >= 1
               /\ Pages[n].response.status = 200
               /\ LastPage(Pages[n])
               /\ put_ids = IdsOf(Pages)
        /\ fpc = "failed" => raises(resp)

\* the listing stops after exactly two pages on current=2, total=2
C5_Witness ==
    /\ fpc = "details"
    /\ Len(Pages) = 2
    /\ get(Pages[2].response.headers, "X-Pagination-Current-Page", <<>>) = <<"2">>
    /\ get(Pages[2].response.headers, "X-Pagination-Page-Count", <<>>) = <<"2">>
    /\ put_ids = <<1, 2>>

\* C11: a listing or detail response whose status is neither 2xx nor 429 ends
\* the run at that request: it is the last GET of the run, the run has failed
\* and no CSV buffer is stored for the merge.
C11_HardFailure ==
    \A i \in 1..Len(http_log) :
        (http_log[i].response.status \notin 200..299
            /\ http_log[i].response.status # 429)
        => /\ i = Len(http_log)
           /\ fpc = "failed"
           /\ resp = http_log[i].response
           /\ csv_buffer = <<>>

\* a detail request fails after the lines of an earlier PUT were fetched
C11_Witness ==
    /\ fpc = "failed"
    /\ http_log[Len(http_log)].request.kind = "detail"
    /\ http_log[Len(http_log)].response.status = 500
    /\ api_lines # <<>>
    /\ csv_buffer = <<>>

\* the detail calls that returned the lines of a PUT, in order
IsDetailOk(e) == e.request.kind = "detail" /\ e.response.status = 200

DetailsOk == SelectSeq(http_log, IsDetailOk)

RECURSIVE LinesOf(_)
LinesOf(details) ==
    IF details = <<>> THEN <<>>
    ELSE Head(details).response.lines \o LinesOf(Tail(details))

\* C12: the requests of a run go out one after the other, each after the
\* answer to the one before and its sleep; no listing request follows a
\* detail request; the PUTs are fetched once each in the order they were
\* collected, and the lines are written in that order.
C12_Sequential ==
    /\ \A i \in 1..(Len(http_log) - 1) :
           /\ http_log[i + 1].request.at >= http_log[i].request.at + 1 + http_log[i].slept
           /\ http_log[i].request.kind = "detail" => http_log[i + 1].request.kind = "detail"
    /\ Len(DetailsOk) = fetched
    /\ fetched <= Len(put_ids)
    /\ \A k \in 1..fetched : DetailsOk[k].request.arg = put_ids[k]
    /\ api_lines = LinesOf(DetailsOk)
    /\ fpc = "done" =>
           /\ fetched = Len(put_ids)
           /\ Len(csv_buffer) = Len(api_lines)
           /\ \A k \in 1..Len(csv_buffer) : csv_buffer[k].put_id = str(api_lines[k].put_id)

\* two pages, two PUTs, the lines of both in the CSV
C12_Witness ==
    /\ fpc = "done"
    /\ put_ids = <<1, 2>>
    /\ Len(csv_buffer) = 2
    /\ csv_buffer[1].put_id = <<"1">>
    /\ csv_buffer[2].put_id = <<"2">>

\* the call that a GET belongs to: the page or the PUT it asks for
CallOf(e) == <<e.request.kind, e.request.arg>>

\* C17: a response whose status is not 429 ends its call of safe_get, also
\* when the throttle slept after it: it is the response the caller gets, the
\* next GET, if any, is for another page or PUT, and an error status among
\* them fails the run instead of being asked again.
C17_ThrottleNoRetry ==
    \A i \in 1..Len(http_log) :
        http_log[i].response.status # 429 =>
            /\ i < Len(http_log) =>
                   /\ CallOf(http_log[i + 1]) # CallOf(http_log[i])
                   /\ http_log[i].response.status = 200
            /\ i = Len(http_log) =>
                   /\ resp = http_log[i].response
                   /\ http_log[i].response.status >= 400 <=> fpc = "failed"

\* a page after which the throttle slept, and then the next page
C17_Witness ==
    /\ Len(http_log) >= 2
    /\ http_log[1].response.status = 200
    /\ http_log[1].slept > 0
    /\ http_log[2].request.arg = 2
    /\ http_log[2].request.at = 1 + http_log[1].slept

\* C19: every GET of a run, a retry after a 429 or a request after a throttle
\* sleep included, is sent with the session's token, and that token's expiry
\* has not passed when the request is sent.
C19_TokenFresh ==
    fpc \in {"listing", "details"} =>
        /\ token # 0
        /\ token = session_token
        /\ now <= token_expiry

\* the quantities of the first n lines that belong to put_id p, added up
RECURSIVE QtyOf(_, _)
QtyOf(p, n) ==
    IF n = 0 THEN 0
    ELSE QtyOf(p, n - 1) + (IF df_lines[n].put_id = p THEN df_lines[n].quantity ELSE 0)

\* C13: received_quantity has an entry for every put_id of the lines, and the
\* entry is the sum of the quantities of all lines of that put_id, whatever
\* their keys are and whichever line the mapping holds.
C13_QuantitySum ==
    Merged =>
        /\ DOMAIN received_quantity = {str(api_lines[i].put_id) : i \in 1..Len(api_lines)}
        /\ \A p \in DOMAIN received_quantity :
               received_quantity[p] = QtyOf(p, Len(df_lines))

\* two lines of one PUT and two keys, of quantities 3 and 3
C13_Witness ==
    /\ Merged
    /\ Len(df_lines) = 2
    /\ df_lines[1].put_id = df_lines[2].put_id
    /\ csv_key(df_lines[1]) # csv_key(df_lines[2])
    /\ received_quantity[df_lines[1].put_id] = 6

\* C15: a sheet with neither a 'Received Quantity' nor a 'Received
\* Quantities' column, however many columns it has, gets a 'Received
\* Quantity' column at the fixed position, and the merge raises no error.
C15_ColumnInserted ==
    (merges = 1 /\ QtyCol = "") =>
        /\ merge_error = "none"
        /\ has_col(df_excel.columns, "Received Quantity")
        /\ \A i \in RowIdx : "Received Quantity" \in DOMAIN df_excel.rows[i]

\* C20: merging the sheet that a merge produced, with the same lines, leaves
\* every field of every row as it was.
C20_MergeIdempotent ==
    (merges = 2 /\ merge_error = "none") => to_excel(df_excel) = excel_file

\* a token-bucket header as a number, d when the response does not have it
HeaderInt(r, name, d) ==
    IF name \in DOMAIN r.headers THEN str_to_int(r.headers[name]) ELSE d

\* C14: after a response that is no 429 the throttle sleeps exactly when
\* consumed >= capacity - 2 or remaining <= 2, and then for
\* (consumed - remaining + 2) * 4 seconds, at least 1 and at most 10.
C14_ThrottleBound ==
    \A i \in 1..Len(http_log) :
        LET e == http_log[i]
            capacity == HeaderInt(e.response, "X-Bucket-Size", 100)
            consumed == HeaderInt(e.response, "X-Marbles-In-Bucket", 0)
            remaining == HeaderInt(e.response, "X-Remaining-Requests", capacity)
            wait == (consumed - remaining + 2) * 4
        IN  e.response.status # 429 =>
                /\ e.slept > 0 <=> (consumed >= capacity - 2 \/ remaining <= 2)
                /\ e.slept > 0 =>
                       /\ e.slept >= 1 /\ e.slept <= 10
                       /\ wait < 1 => e.slept = 1
                       /\ wait > 10 => e.slept = 10
                       /\ wait \in 1..10 => e.slept = wait

\* a sleep inside the range, and the caller resumes after it
C14_Witness ==
    /\ Len(http_log) = 1
    /\ http_log[1].response.status = 200
    /\ http_log[1].slept = 4
    /\ now = 5

\* the text of v without the blanks around it and without one trailing '.0'
Trimmed(v) ==
    LET s == strip(str(v))
        n == Len(s)
    IN  IF n >= 2 /\ s[n - 1] = "." /\ s[n] = "0" THEN SubSeq(s, 1, n - 2) ELSE s

AllDigits(s) == Len(s) > 0 /\ \A i \in 1..Len(s) : s[i] \in Digits

\* r is s with zeros on its left up to the width w, and s when s is wider
PaddedTo(r, s, w) ==
    /\ Len(r) = (IF Len(s) >= w THEN Len(s) ELSE w)
    /\ \A i \in 1..Len(r) :
           r[i] = (IF i <= Len(r) - Len(s) THEN "0" ELSE s[i - (Len(r) - Len(s))])

\* C16: after stripping and dropping one trailing '.0', normalize_item_number
\* pads a digit string to width 7, normalize_kleurnummer pads one of at most
\* 2 digits to width 3 and a longer one to width 4, normalize_order_number
\* pads nothing; a string that is not all digits comes back unchanged.
C16_Rules ==
    applied = 1 =>
        LET s == Trimmed(x)
        IN  /\ y.k = "str"
            /\ fn = "item" =>
                   IF AllDigits(s) THEN PaddedTo(y.s, s, 7) ELSE y.s = s
            /\ fn = "color" =>
                   IF AllDigits(s)
                   THEN PaddedTo(y.s, s, IF Len(s) <= 2 THEN 3 ELSE 4)
                   ELSE y.s = s
            /\ fn = "order" => y.s = s

\* a colour of three digits padded to four
C16_Witness ==
    /\ applied = 1
    /\ fn = "color"
    /\ x = Str(<<"1", "1", "1">>)
    /\ y = Str(<<"0", "1", "1", "1">>)

\* C18: a call of safe_get returns at last when the server answers some
\* attempt with another status than 429, and when the server answers 429 to
\* every attempt it never returns and goes on asking.
C18_Liveness ==
    /\ (~server.always) ~> (returned # NoResp)
    /\ [](server.always => returned = NoResp)
    /\ server.always ~> (attempts = MaxAttempts)

\* two 429s, and the third attempt is returned
C18_Witness ==
    /\ ~server.always
    /\ server.rejects = 2
    /\ attempts = 3
    /\ returned.status = 200

\* C6: canonicalization is idempotent: applying normalize_item_number,
\* normalize_kleurnummer or normalize_order_number to its own result gives
\* that result again.
C6_Idempotent == applied >= 2 => y = first

====
